---- MODULE Spec2Model ----
(***************************************************************************)
(* Model of pyscgm/extmath.py: approx_range_finder and randomized_svd.     *)
(*                                                                         *)
(* A matrix is represented by its shape <<rows, cols>>; the caller's       *)
(* matrix is a buffer [rows, cols, entries] that the locals M and A refer  *)
(* to through a view (a transposed flag), as numpy's asmatrix and .T do.   *)
(* The sequence of linear-algebra operations applied to the random draw is *)
(* recorded in ops, so the value of Q is the draw transformed by ops.      *)
(***************************************************************************)
EXTENDS Integers, Sequences, FiniteSets, TLC

\* ---------------------------------------------------------------- bounds
MaxDim == 11        \* rows and columns of the caller's matrix range over 1..MaxDim
MaxComp == 2        \* n_components ranges over 1..min(MaxComp, rows, cols)
MaxOver == 1        \* n_oversamples ranges over 0..MaxOver
MaxIter == 3        \* an explicit n_iter ranges over 0..MaxIter
MaxSize == 4        \* size of a direct approx_range_finder call ranges over 1..MaxSize

\* the normalizer strings a caller may pass: the four documented ones and
\* three the code does not know
Normalizers == {"auto", "none", "LU", "QR", "lu", "qr", "other"}

Transposes == {"auto", "True", "False"}

\* ---------------------------------------------------------------- helpers
Min(a, b) == IF a < b THEN a ELSE b

RECURSIVE Pow2(_)
Pow2(e) == IF e = 0 THEN 1 ELSE 2 * Pow2(e - 1)

RECURSIVE BitLen(_)
BitLen(x) == IF x = 0 THEN 0 ELSE 1 + BitLen(x \div 2)

\* ------------------------------------------- IEEE-754 double: .1 * min(M.shape)
\* The literal .1 is the double 0x1999999999999A * 2^-56.  Its 53-bit
\* significand is held in three limbs of 20 bits, most significant last.
Limb == 1048576
TenthLo == 629146
TenthMid == 629145
TenthHi == 6553

\* k * significand(.1) as normalised limbs <<lo, mid, hi>> (exact product)
TenthTimes(k) ==
    LET a0 == k * TenthLo
        a1 == k * TenthMid + (a0 \div Limb)
        a2 == k * TenthHi + (a1 \div Limb)
    IN  <<a0 % Limb, a1 % Limb, a2>>

\* the exact product rounded to 53 significant bits, ties to even; the
\* result is the double R * 2^-56 with R given in limbs
RoundDouble(p) ==
    LET len  == IF p[3] = 0 THEN 0 ELSE 40 + BitLen(p[3])
        sh   == IF len > 53 THEN len - 53 ELSE 0
        unit == Pow2(sh)
        q0   == p[1] \div unit
        rem  == p[1] % unit
        up   == /\ sh > 0
                /\ \/ 2 * rem > unit
                   \/ 2 * rem = unit /\ q0 % 2 = 1
        r0   == (q0 + (IF up THEN 1 ELSE 0)) * unit
        r1   == p[2] + (r0 \div Limb)
        r2   == p[3] + (r1 \div Limb)
    IN  <<r0 % Limb, r1 % Limb, r2>>

\* Python's exact comparison  n < x  of an int with the double x = r * 2^-56
IntLeDouble(n, r) ==
    \/ n * 65536 < r[3]
    \/ n * 65536 = r[3]

IntLtDouble(n, r) ==
    \/ n * 65536 < r[3]
    \/ n * 65536 = r[3] /\ (r[2] > 0 \/ r[1] > 0)

\* ------------------------------------------------ numpy / scipy shape rules
\* a failed operation (numpy raises ValueError) yields ShapeError, which no
\* later operation accepts
ShapeError == <<0, 0>>

\* X * Y of two numpy matrices
MatMul(X, Y) == IF X[2] = Y[1] /\ X # ShapeError THEN <<X[1], Y[2]>> ELSE ShapeError

\* X.H and X.T of a matrix value
MatH(X) == <<X[2], X[1]>>

\* scipy.linalg.lu(X, permute_l=True)[0]: the permuted L, rows x min(rows, cols)
LuPermuteL(X) == <<X[1], Min(X[1], X[2])>>

\* scipy.linalg.qr(X, mode='full')[0]: rows x rows
QrFull(X) == <<X[1], X[1]>>

\* scipy.linalg.qr(X, mode='economic')[0]: rows x min(rows, cols)
QrEconomic(X) == <<X[1], Min(X[1], X[2])>>

\* scipy.linalg.svd(B, full_matrices=False): Uhat, s, Vh
SvdThin(B) ==
    LET K == Min(B[1], B[2])
    IN  [Uhat |-> <<B[1], K>>, s |-> K, V |-> <<K, B[2]>>]

\* X[:, :k] and X[:k, :] and s[:k]
ColsUpTo(X, k) == <<X[1], Min(k, X[2])>>
RowsUpTo(X, k) == <<Min(k, X[1]), X[2]>>
LenUpTo(len, k) == Min(k, len)

\* ------------------------------------------------ the caller's matrix and views
\* np.asmatrix(M) of a matrix: no copy, the same buffer seen through the same view
AsMatrix(buf, view) == [buf |-> buf, view |-> view]

\* a transposition done in place on the buffer itself
MatT_inplace(buf, view) ==
    [buf |-> [buf EXCEPT !.rows = buf.cols, !.cols = buf.rows], view |-> view]

\* M.T: a new view of the same buffer, the buffer is not written
MatT(buf, view) == [buf |-> buf, view |-> [view EXCEPT !.T = ~view.T]]

\* M.shape as seen through a view
ShapeOf(buf, view) ==
    IF view.T THEN <<buf.cols, buf.rows>> ELSE <<buf.rows, buf.cols>>

\* ------------------------------------------------ 'auto' resolutions
ResolveNormalizer_lt(pn, n) ==
    IF pn = "auto"
    THEN IF n < 2 THEN "none" ELSE "LU"
    ELSE pn

\* approx_range_finder, "Deal with auto mode"
ResolveNormalizer(pn, n) ==
    IF pn = "auto"
    THEN IF n <= 2 THEN "none" ELSE "LU"
    ELSE pn

AutoNIter_low(k, shape) ==
    IF IntLtDouble(k, RoundDouble(TenthTimes(Min(shape[1], shape[2]))))
    THEN 7 ELSE 2

\* 7 if n_components < .1 * min(M.shape) else 4
AutoNIter(k, shape) ==
    IF IntLtDouble(k, RoundDouble(TenthTimes(Min(shape[1], shape[2]))))
    THEN 7 ELSE 4

\* n_iter of randomized_svd: [auto |-> TRUE, val |-> 0] is the string 'auto'
ResolveNIter(ni, k, shape) ==
    IF ni.auto THEN AutoNIter(k, shape) ELSE ni.val

ResolveTranspose_gt(t, shape) ==
    IF t = "auto" THEN shape[1] > shape[2] ELSE t = "True"

\* transpose = M.shape[0] < M.shape[1] when 'auto'; True / False as given
ResolveTranspose(t, shape) ==
    IF t = "auto" THEN shape[1] < shape[2] ELSE t = "True"

\* ------------------------------------------------ one power iteration
Op(name, shape) == [op |-> name, shape |-> shape]

NoneRound(As, Q, ops) ==
    LET Q1 == MatMul(As, Q)
        Q2 == MatMul(MatH(As), Q1)
    IN  [Q |-> Q2, ops |-> ops \o <<Op("A*Q", Q1), Op("A.H*Q", Q2)>>]

LURound(As, Q, ops) ==
    LET Q1 == MatMul(As, Q)
        L1 == LuPermuteL(Q1)
        Q2 == MatMul(MatH(As), L1)
        L2 == LuPermuteL(Q2)
    IN  [Q |-> L2,
         ops |-> ops \o <<Op("A*Q", Q1), Op("lu", L1), Op("A.H*Q", Q2), Op("lu", L2)>>]

QRRound(As, Q, ops) ==
    LET Q1 == MatMul(As, Q)
        F1 == QrEconomic(Q1)
        Q2 == MatMul(MatH(As), F1)
        F2 == QrEconomic(Q2)
    IN  [Q |-> F2,
         ops |-> ops \o <<Op("A*Q", Q1), Op("qr", F1), Op("A.H*Q", Q2), Op("qr", F2)>>]

\* a loop body that normalizes only once per round
PowerIteration_once(pn, As, Q, ops) ==
    IF pn = "none" THEN NoneRound(As, Q, ops)
    ELSE IF pn = "LU"
    THEN LET Q1 == MatMul(As, Q)
             Q2 == MatMul(MatH(As), Q1)
             L2 == LuPermuteL(Q2)
         IN  [Q |-> L2, ops |-> ops \o <<Op("A*Q", Q1), Op("A.H*Q", Q2), Op("lu", L2)>>]
    ELSE IF pn = "QR" THEN QRRound(As, Q, ops)
    ELSE [Q |-> Q, ops |-> ops]

\* a loop body whose last branch is an else
PowerIteration_else(pn, As, Q, ops) ==
    IF pn = "none" THEN NoneRound(As, Q, ops)
    ELSE IF pn = "LU" THEN LURound(As, Q, ops)
    ELSE QRRound(As, Q, ops)

\* the body of  for i in range(n_iter)
PowerIteration(pn, As, Q, ops) ==
    IF pn = "none" THEN NoneRound(As, Q, ops)
    ELSE IF pn = "LU" THEN LURound(As, Q, ops)
    ELSE IF pn = "QR" THEN QRRound(As, Q, ops)
    ELSE [Q |-> Q, ops |-> ops]

\* Q, _ = linalg.qr(A * Q, mode='economic')
FinalStep(As, Q, ops) ==
    LET Q1 == MatMul(As, Q)
        F1 == QrEconomic(Q1)
    IN  [Q |-> F1, ops |-> ops \o <<Op("A*Q", Q1), Op("qr", F1)>>]

\* ------------------------------------------------ the result of randomized_svd
\* a return that hands back the rows of V as they come from linalg.svd
SvdReturn_rows(transpose, U, s, V, k) ==
    IF transpose
    THEN [U |-> MatH(RowsUpTo(V, k)), s |-> LenUpTo(s, k), V |-> MatH(ColsUpTo(U, k))]
    ELSE [U |-> ColsUpTo(U, k), s |-> LenUpTo(s, k), V |-> RowsUpTo(V, k)]

\* the two return statements: V[:k, :].T, s[:k], U[:, :k].conj()  when
\* transposed, U[:, :k], s[:k], V[:k, :].H  otherwise
SvdReturn(transpose, U, s, V, k) ==
    IF transpose
    THEN [U |-> MatH(RowsUpTo(V, k)), s |-> LenUpTo(s, k), V |-> ColsUpTo(U, k)]
    ELSE [U |-> ColsUpTo(U, k), s |-> LenUpTo(s, k), V |-> MatH(RowsUpTo(V, k))]

\* ---------------------------------------------------------------- state
VARIABLES
    pc,                 \* position in randomized_svd / approx_range_finder
    args,               \* the arguments of the call, as the caller passed them
    callerM,            \* the caller's matrix: [rows, cols, entries]
    rgen,               \* number of rgen.randn calls made so far
    M,                  \* randomized_svd: the local M, a view of callerM
    sketch_size,        \* randomized_svd: n_components + n_oversamples
    n_iter,             \* randomized_svd: n_iter once resolved
    transpose,          \* randomized_svd: transpose once resolved
    B, Uhat, s, V, U,   \* randomized_svd: shapes of the intermediates
    ret,                \* randomized_svd: the returned triple
    A,                  \* approx_range_finder: the local A, a view of callerM
    size,               \* approx_range_finder: size
    rf_n_iter,          \* approx_range_finder: n_iter
    piter_normalizer,   \* approx_range_finder: piter_normalizer
    i,                  \* approx_range_finder: rounds of the for loop started
    Q,                  \* approx_range_finder: shape of Q
    ops                 \* operations applied to the random draw so far

vars == <<pc, args, callerM, rgen, M, sketch_size, n_iter, transpose,
          B, Uhat, s, V, U, ret, A, size, rf_n_iter, piter_normalizer, i, Q, ops>>

svdLocals == <<M, sketch_size, n_iter, transpose, B, Uhat, s, V, U, ret>>
rfLocals == <<A, size, rf_n_iter, piter_normalizer, i, Q, ops>>

Unset == <<>>
NoRet == [U |-> Unset, s |-> 0, V |-> Unset]
PlainView == [T |-> FALSE]
Buffer(rows, cols) == [rows |-> rows, cols |-> cols, entries |-> "orig"]

\* a call  randomized_svd(M, n_components, n_oversamples, n_iter,
\*                        piter_normalizer, transpose, rgen)
InitSvd ==
    \E rows \in 1..MaxDim, cols \in 1..MaxDim, p \in 0..MaxOver,
       ni \in {[auto |-> TRUE, val |-> 0]} \cup {[auto |-> FALSE, val |-> v] : v \in 0..MaxIter},
       pn \in Normalizers, t \in Transposes :
      \E k \in 1..Min(MaxComp, Min(rows, cols)) :
        /\ args = [entry |-> "randomized_svd", rows |-> rows, cols |-> cols,
                   n_components |-> k, n_oversamples |-> p, n_iter |-> ni,
                   piter_normalizer |-> pn, transpose |-> t, size |-> 0]
        /\ callerM = Buffer(rows, cols)
        /\ pc = "svd_start"
        /\ size = 0 /\ rf_n_iter = 0 /\ piter_normalizer = ""

\* a call  approx_range_finder(A, size, n_iter, piter_normalizer, rgen)
InitRf ==
    \E rows \in 1..MaxDim, cols \in 1..MaxDim, sz \in 1..MaxSize,
       v \in 0..MaxIter, pn \in Normalizers :
        /\ args = [entry |-> "approx_range_finder", rows |-> rows, cols |-> cols,
                   n_components |-> 0, n_oversamples |-> 0,
                   n_iter |-> [auto |-> FALSE, val |-> v],
                   piter_normalizer |-> pn, transpose |-> "False", size |-> sz]
        /\ callerM = Buffer(rows, cols)
        /\ pc = "rf_draw"
        /\ size = sz /\ rf_n_iter = v /\ piter_normalizer = pn

Init ==
    /\ InitSvd \/ InitRf
    /\ rgen = 0
    /\ M = PlainView /\ A = PlainView
    /\ sketch_size = 0 /\ n_iter = 0 /\ transpose = FALSE
    /\ B = Unset /\ Uhat = Unset /\ s = 0 /\ V = Unset /\ U = Unset
    /\ ret = NoRet
    /\ i = 0 /\ Q = Unset /\ ops = <<>>

\* ------------------------------------------------ randomized_svd
\* M = np.asmatrix(M); sketch_size; n_iter == 'auto'
SVD_Start ==
    /\ pc = "svd_start"
    /\ LET r == AsMatrix(callerM, M)
       IN  /\ callerM' = r.buf
           /\ M' = r.view
           /\ n_iter' = ResolveNIter(args.n_iter, args.n_components, ShapeOf(r.buf, r.view))
    /\ sketch_size' = args.n_components + args.n_oversamples
    /\ pc' = "svd_transpose"
    /\ UNCHANGED <<args, rgen, transpose, B, Uhat, s, V, U, ret, rfLocals>>

\* transpose == 'auto'; if transpose: M = M.T
SVD_Transpose ==
    /\ pc = "svd_transpose"
    /\ LET t == ResolveTranspose(args.transpose, ShapeOf(callerM, M))
           r == IF t THEN MatT(callerM, M) ELSE [buf |-> callerM, view |-> M]
       IN  /\ transpose' = t
           /\ callerM' = r.buf
           /\ M' = r.view
    /\ pc' = "svd_call"
    /\ UNCHANGED <<args, rgen, sketch_size, n_iter, B, Uhat, s, V, U, ret, rfLocals>>

\* Q = approx_range_finder(M, sketch_size, n_iter, piter_normalizer, rgen)
SVD_Call ==
    /\ pc = "svd_call"
    /\ A' = M
    /\ size' = sketch_size
    /\ rf_n_iter' = n_iter
    /\ piter_normalizer' = args.piter_normalizer
    /\ pc' = "rf_draw"
    /\ UNCHANGED <<args, callerM, rgen, svdLocals, i, Q, ops>>

\* B = Q.H * M
SVD_Project ==
    /\ pc = "svd_project"
    /\ B' = MatMul(MatH(Q), ShapeOf(callerM, M))
    /\ pc' = IF B' = ShapeError THEN "raised" ELSE "svd_svd"
    /\ UNCHANGED <<args, callerM, rgen, M, sketch_size, n_iter, transpose,
                   Uhat, s, V, U, ret, rfLocals>>

\* Uhat, s, V = linalg.svd(B, full_matrices=False); del B; U = np.dot(Q, Uhat)
SVD_Svd ==
    /\ pc = "svd_svd"
    /\ LET d == SvdThin(B)
       IN  /\ Uhat' = d.Uhat
           /\ s' = d.s
           /\ V' = d.V
           /\ U' = MatMul(Q, d.Uhat)
    /\ B' = Unset
    /\ pc' = IF U' = ShapeError THEN "raised" ELSE "svd_return"
    /\ UNCHANGED <<args, callerM, rgen, M, sketch_size, n_iter, transpose, ret, rfLocals>>

\* the return statement chosen by  if transpose
SVD_Return ==
    /\ pc = "svd_return"
    /\ ret' = SvdReturn(transpose, U, s, V, args.n_components)
    /\ pc' = "done"
    /\ UNCHANGED <<args, callerM, rgen, M, sketch_size, n_iter, transpose,
                   B, Uhat, s, V, U, rfLocals>>

\* ------------------------------------------------ approx_range_finder
\* A = np.asmatrix(A); Q = rgen.randn(A.shape[1], size)
RF_Draw ==
    /\ pc = "rf_draw"
    /\ LET r == AsMatrix(callerM, A)
       IN  /\ callerM' = r.buf
           /\ A' = r.view
           /\ Q' = <<ShapeOf(r.buf, r.view)[2], size>>
    /\ rgen' = rgen + 1
    /\ pc' = "rf_auto"
    /\ UNCHANGED <<args, svdLocals, size, rf_n_iter, piter_normalizer, i, ops>>

\* if piter_normalizer == 'auto'
RF_Auto ==
    /\ pc = "rf_auto"
    /\ piter_normalizer' = ResolveNormalizer(piter_normalizer, rf_n_iter)
    /\ i' = 0
    /\ pc' = "rf_loop"
    /\ UNCHANGED <<args, callerM, rgen, svdLocals, A, size, rf_n_iter, Q, ops>>

\* one round of  for i in range(n_iter)
RF_Iterate ==
    /\ pc = "rf_loop"
    /\ i < rf_n_iter
    /\ LET r == PowerIteration(piter_normalizer, ShapeOf(callerM, A), Q, ops)
       IN  /\ Q' = r.Q
           /\ ops' = r.ops
    /\ i' = i + 1
    /\ pc' = IF Q' = ShapeError THEN "raised" ELSE "rf_loop"
    /\ UNCHANGED <<args, callerM, rgen, svdLocals, A, size, rf_n_iter, piter_normalizer>>

\* Q, _ = linalg.qr(A * Q, mode='economic'); return np.asmatrix(Q)
RF_Final ==
    /\ pc = "rf_loop"
    /\ i >= rf_n_iter
    /\ LET r == FinalStep(ShapeOf(callerM, A), Q, ops)
       IN  /\ Q' = r.Q
           /\ ops' = r.ops
    /\ pc' = IF Q' = ShapeError THEN "raised"
             ELSE IF args.entry = "randomized_svd" THEN "svd_project" ELSE "done"
    /\ UNCHANGED <<args, callerM, rgen, svdLocals, A, size, rf_n_iter, piter_normalizer, i>>

Next ==
    \/ SVD_Start
    \/ SVD_Transpose
    \/ SVD_Call
    \/ SVD_Project
    \/ SVD_Svd
    \/ SVD_Return
    \/ RF_Draw
    \/ RF_Auto
    \/ RF_Iterate
    \/ RF_Final

Spec == Init /\ [][Next]_vars

\* ---------------------------------------------------------------- properties
Known == {"auto", "none", "LU", "QR"}

\* positions at which approx_range_finder has resolved 'auto'
RfResolved == pc \in {"rf_loop", "svd_project", "svd_svd", "svd_return", "done"}

\* positions at which approx_range_finder has returned
RfReturned == pc \in {"svd_project", "svd_svd", "svd_return", "done"}

\* positions inside or after the call of approx_range_finder
RfEntered == pc \in {"rf_draw", "rf_auto"} \/ RfResolved

IsSvd == args.entry = "randomized_svd"

\* shape of the matrix approx_range_finder was given
AShape == ShapeOf(callerM, A)

OpNames(o) == [j \in 1..Len(o) |-> o[j].op]

IsMul(name) == name \in {"A*Q", "A.H*Q"}

MulCount(o) == Cardinality({j \in 1..Len(o) : IsMul(o[j].op)})

\* C1: in approx_range_finder 'auto' resolves to 'none' when n_iter <= 2 and
\* to 'LU' when n_iter >= 3; an explicit none, LU or QR is left as given.
Thm_C1 ==
    RfResolved =>
        /\ (args.piter_normalizer = "auto" /\ rf_n_iter <= 2) => piter_normalizer = "none"
        /\ (args.piter_normalizer = "auto" /\ rf_n_iter >= 3) => piter_normalizer = "LU"
        /\ args.piter_normalizer \in {"none", "LU", "QR"}
               => piter_normalizer = args.piter_normalizer

Wit_C1 ==
    /\ pc = "rf_loop"
    /\ args.piter_normalizer = "auto"
    /\ rf_n_iter = 3
    /\ piter_normalizer = "LU"

\* C2: in randomized_svd n_iter='auto' resolves to 7 exactly when
\* 10 * n_components < min(m, n) and to 4 otherwise (the boundary
\* 10 * n_components = min(m, n) included), whatever the transpose setting;
\* an explicit n_iter reaches the range finder unchanged.
Thm_C2 ==
    (IsSvd /\ pc # "svd_start") =>
        /\ n_iter = IF args.n_iter.auto
                    THEN IF 10 * args.n_components < Min(args.rows, args.cols)
                         THEN 7 ELSE 4
                    ELSE args.n_iter.val
        /\ (RfEntered => rf_n_iter = n_iter)

Wit_C2 ==
    /\ IsSvd /\ pc = "done"
    /\ args.n_iter.auto
    /\ 10 * args.n_components = Min(args.rows, args.cols)
    /\ transpose
    /\ rf_n_iter = 4

\* C3: transpose='auto' works on the transposed matrix exactly when m < n;
\* True and False are honoured whatever the shape.
Thm_C3 ==
    (IsSvd /\ pc \notin {"svd_start", "svd_transpose"}) =>
        /\ args.transpose = "auto" => (transpose <=> args.rows < args.cols)
        /\ args.transpose = "True" => transpose
        /\ args.transpose = "False" => ~transpose
        /\ M.T = transpose
        /\ ShapeOf(callerM, M) = IF transpose THEN <<args.cols, args.rows>>
                                 ELSE <<args.rows, args.cols>>
        /\ (RfEntered => A = M)

Wit_C3 ==
    /\ IsSvd /\ pc = "done"
    /\ args.transpose = "auto"
    /\ args.rows < args.cols
    /\ M.T

\* C4: for 1 <= size <= min(m, n) every product and every LU / QR factor of
\* the schedule has shape (m, size) or (n, size), alternating with the
\* multiplications, and the returned Q has shape (m, size).
Thm_C4 ==
    (RfEntered /\ size >= 1 /\ size <= Min(AShape[1], AShape[2])) =>
        /\ \A j \in 1..Len(ops) :
              ops[j].shape = IF ops[j].op = "A*Q" THEN <<AShape[1], size>>
                             ELSE IF ops[j].op = "A.H*Q" THEN <<AShape[2], size>>
                             ELSE ops[j - 1].shape
        /\ RfReturned => Q = <<AShape[1], size>>

Wit_C4 ==
    /\ ~IsSvd /\ pc = "done"
    /\ size >= 1
    /\ size = Min(args.rows, args.cols) - 1
    /\ piter_normalizer = "QR"
    /\ rf_n_iter >= 1
    /\ Q = <<args.rows, size>>

\* the product U * diag(s) * X is defined and has the shape of the caller's M
Conformant(Us, slen, X) ==
    MatMul(MatMul(Us, <<slen, slen>>), X) = <<args.rows, args.cols>>

\* C5, as claimed: U is m x n_components, s has n_components entries and V is
\* n_components x n, so that U * diag(s) * V has the shape of M.
Orig_C5 ==
    (IsSvd /\ pc = "done") =>
        /\ ret.U = <<args.rows, args.n_components>>
        /\ ret.s = args.n_components
        /\ ret.V = <<args.n_components, args.cols>>
        /\ Conformant(ret.U, ret.s, ret.V)

\* C5, amended: U is m x n_components, s has n_components entries and V is
\* n x n_components (its columns are the right singular vectors), so that
\* U * diag(s) * V^H has the shape of M.
Thm_C5 ==
    (IsSvd /\ pc = "done") =>
        /\ ret.U = <<args.rows, args.n_components>>
        /\ ret.s = args.n_components
        /\ ret.V = <<args.cols, args.n_components>>
        /\ Conformant(ret.U, ret.s, MatH(ret.V))

Wit_C5 ==
    /\ IsSvd /\ pc = "done"
    /\ transpose
    /\ args.n_components = 2
    /\ args.n_oversamples >= 1
    /\ args.rows > args.cols
    /\ ret.V = <<args.cols, 2>>

\* C6: the caller's matrix keeps its shape and its entries throughout a call of
\* either function; the random generator is the only caller-visible state that
\* changes (one draw per call).
Thm_C6 ==
    /\ callerM = Buffer(args.rows, args.cols)
    /\ pc = "done" => rgen = 1

Wit_C6 ==
    /\ IsSvd /\ pc = "done"
    /\ args.transpose = "True"
    /\ M.T
    /\ args.rows # args.cols
    /\ rgen = 1

\* the operations of one round and of a whole call, as the claim states them
Round(mode) ==
    IF mode = "none" THEN <<"A*Q", "A.H*Q">>
    ELSE IF mode = "LU" THEN <<"A*Q", "lu", "A.H*Q", "lu">>
    ELSE <<"A*Q", "qr", "A.H*Q", "qr">>

RECURSIVE Schedule(_, _)
Schedule(n, mode) ==
    IF n = 0 THEN <<"A*Q", "qr">> ELSE Round(mode) \o Schedule(n - 1, mode)

AllLU(o) ==
    \A j \in 1..(Len(o) - 2) : IsMul(o[j].op) => o[j + 1].op = "lu"

\* C9: with n_iter='auto' and piter_normalizer='auto' randomized_svd always
\* runs LU-normalized power iterations; under normalizer 'auto' no
\* normalization is chosen only for an explicit n_iter <= 2.
Thm_C9 ==
    (RfResolved /\ args.piter_normalizer = "auto") =>
        /\ (IsSvd /\ args.n_iter.auto) =>
               /\ rf_n_iter \in {4, 7}
               /\ piter_normalizer = "LU"
               /\ AllLU(ops)
        /\ piter_normalizer = "none" => (~args.n_iter.auto /\ args.n_iter.val <= 2)

Wit_C9 ==
    /\ IsSvd /\ pc = "done"
    /\ args.piter_normalizer = "auto"
    /\ args.n_iter.auto
    /\ rf_n_iter = 4
    /\ Len(ops) = 18

\* C10: a normalizer outside auto, none, LU, QR raises nothing; every round
\* leaves Q as drawn, and the call performs only the final A*Q and QR, as a
\* call with n_iter = 0 does.
Thm_C10 ==
    args.piter_normalizer \notin Known =>
        /\ pc # "raised"
        /\ pc = "rf_loop" => (ops = <<>> /\ Q = <<AShape[2], size>>)
        /\ RfReturned =>
               /\ OpNames(ops) = <<"A*Q", "qr">>
               /\ ops = FinalStep(AShape, <<AShape[2], size>>, <<>>).ops
               /\ Q = FinalStep(AShape, <<AShape[2], size>>, <<>>).Q

Wit_C10 ==
    /\ ~IsSvd /\ pc = "done"
    /\ args.piter_normalizer = "lu"
    /\ rf_n_iter = 3
    /\ i = 3
    /\ Len(ops) = 2

====
